---- MODULE Spec2Model ----
(***************************************************************************)
(* A model of the qbit client (package qbit, src/qbit.go): construction    *)
(* (New, NewNoAuth, newConfig), the login handshake (login) and the        *)
(* request dispatcher (getReq, postReq, req) with its re-login and retry.  *)
(*                                                                         *)
(* Strings whose characters matter (URLs, credentials, login bodies, the   *)
(* Authorization value) are sequences of one-character strings; a path or  *)
(* a form value that is only ever copied is a sequence of one token.       *)
(***************************************************************************)
EXTENDS Integers, Sequences, FiniteSets, TLC

VARIABLES
  config,   \* the caller's *Config, shared with the client (newConfig writes config.URL)
  qbit,     \* the *Qbit returned by construction: built, auth, its http.Client, the jar made for it
  jar,      \* the Jar field of the client's http.Client: which jar it is, and the cookies in it
  calls     \* per caller: the operation in progress, its frame in req/login, what it sent and got

vars == <<config, qbit, jar, calls>>

----------------------------------------------------------------------------
(* Bounds of the model *)

\* login response bodies are all the strings over BodyAlphabet up to this length
MaxBodyLen == 4

(* Program constants *)

\* http.StatusOK
StatusOK == 200
\* time.Minute, in seconds
Minute == 60

----------------------------------------------------------------------------
(* Strings *)

\* strings.HasSuffix
HasSuffix(s, suffix) ==
  /\ Len(s) >= Len(suffix)
  /\ SubSeq(s, Len(s) - Len(suffix) + 1, Len(s)) = suffix

\* strings.TrimSuffix: s without the suffix when it ends in it, else s
TrimSuffix(s, suffix) ==
  IF HasSuffix(s, suffix) THEN SubSeq(s, 1, Len(s) - Len(suffix)) ELSE s

\* strings.Index(s, substr) >= 0, scanning the start positions left to right
RECURSIVE IndexFrom(_, _, _)
IndexFrom(s, substr, i) ==
  IF i + Len(substr) > Len(s) THEN -1
  ELSE IF SubSeq(s, i + 1, i + Len(substr)) = substr THEN i
  ELSE IndexFrom(s, substr, i + 1)

\* strings.Contains
Contains(s, substr) == IndexFrom(s, substr, 0) >= 0

\* strings.Join
RECURSIVE Join(_, _)
Join(elems, sep) ==
  IF elems = <<>> THEN <<>>
  ELSE IF Len(elems) = 1 THEN elems[1]
  ELSE elems[1] \o sep \o Join(Tail(elems), sep)

\* the byte of a character (the characters the credentials of the model use)
Ord(ch) ==
  CASE ch = ":" -> 58
    [] ch = "p" -> 112
    [] ch = "u" -> 117

RECURSIVE Bytes(_)
Bytes(s) == IF s = <<>> THEN <<>> ELSE <<Ord(Head(s))>> \o Bytes(Tail(s))

\* base64.StdEncoding's alphabet
encodeStd ==
  << "A","B","C","D","E","F","G","H","I","J","K","L","M","N","O","P",
     "Q","R","S","T","U","V","W","X","Y","Z","a","b","c","d","e","f",
     "g","h","i","j","k","l","m","n","o","p","q","r","s","t","u","v",
     "w","x","y","z","0","1","2","3","4","5","6","7","8","9","+","/" >>

\* base64.StdEncoding.EncodeToString: three bytes to four characters, '=' padding
RECURSIVE EncodeToString(_)
EncodeToString(b) ==
  IF b = <<>> THEN <<>>
  ELSE IF Len(b) = 1 THEN
    << encodeStd[(b[1] \div 4) + 1], encodeStd[((b[1] % 4) * 16) + 1], "=", "=" >>
  ELSE IF Len(b) = 2 THEN
    << encodeStd[(b[1] \div 4) + 1],
       encodeStd[((b[1] % 4) * 16 + (b[2] \div 16)) + 1],
       encodeStd[((b[2] % 16) * 4) + 1], "=" >>
  ELSE
    << encodeStd[(b[1] \div 4) + 1],
       encodeStd[((b[1] % 4) * 16 + (b[2] \div 16)) + 1],
       encodeStd[((b[2] % 16) * 4 + (b[3] \div 64)) + 1],
       encodeStd[(b[3] % 64) + 1] >>
    \o EncodeToString(SubSeq(b, 4, Len(b)))

----------------------------------------------------------------------------
(* Errors: the chain errors.Is walks, outermost first, and what the message carries *)

NilErr == [chain |-> <<>>, status |-> 0, detail |-> <<>>]

\* errors.Is
ErrorsIs(err, target) == \E i \in 1..Len(err.chain) : err.chain[i] = target

\* var ErrLoginFailed
ErrLoginFailed == [chain |-> <<"ErrLoginFailed">>, status |-> 0, detail |-> <<>>]

\* fmt.Errorf(msg + ": %w", err)
Wrap(msg, err) == [err EXCEPT !.chain = <<msg>> \o @]

----------------------------------------------------------------------------
(* url.Values *)

\* a nil url.Values (getReq passes nil) and an allocated, empty one
NilValues == [isNil |-> TRUE, m |-> <<>>]
EmptyValues == [isNil |-> FALSE, m |-> <<>>]

\* Values.Set: v[key] = []string{value}; a write to a nil map panics
ValuesSetPanics(v) == v.isNil
ValuesSet(v, key, value) ==
  [v EXCEPT !.m = [k \in (DOMAIN v.m) \cup {key} |-> IF k = key THEN value ELSE v.m[k]]]

\* the keys the client uses, in the byte order Values.Encode sorts them by
KeyOrder == <<"category", "filter", "hashes", "password", "username">>

\* no escaping at all
EscapeCharNone(ch) == ch

\* url.QueryEscape of one character, on the characters of the model: a space
\* becomes +, and | & = become %7C %26 %3D
EscapeChar(ch) ==
  IF ch = "|" THEN "%7C"
  ELSE IF ch = "&" THEN "%26"
  ELSE IF ch = "=" THEN "%3D"
  ELSE IF ch = " " THEN "+"
  ELSE ch

\* url.QueryEscape
RECURSIVE QueryEscape(_)
QueryEscape(s) ==
  IF s = <<>> THEN <<>>
  ELSE <<EscapeChar(Head(s))>> \o QueryEscape(Tail(s))

\* Values.Encode: key=value pairs, sorted by key, joined by '&' ("" for a nil map)
RECURSIVE EncodeFrom(_, _)
EncodeFrom(v, i) ==
  IF i > Len(KeyOrder) THEN <<>>
  ELSE LET rest == EncodeFrom(v, i + 1)
           k == KeyOrder[i]
       IN IF k \in DOMAIN v.m
          THEN <<k, "=">> \o QueryEscape(v.m[k]) \o (IF rest = <<>> THEN <<>> ELSE <<"&">> \o rest)
          ELSE rest

Encode(v) == EncodeFrom(v, 1)

----------------------------------------------------------------------------
(* Contexts *)

\* context.Background() and context.TODO(): no deadline
Background == [hasDeadline |-> FALSE, timeout |-> 0]

\* context.WithTimeout(parent, d): the earlier of the parent's deadline and now + d
WithTimeout(parent, d) ==
  [hasDeadline |-> TRUE,
   timeout |-> IF parent.hasDeadline /\ parent.timeout < d THEN parent.timeout ELSE d]

\* the contexts a caller passes: none, a shorter and a longer deadline than a minute
CallerContexts == {Background, WithTimeout(Background, Minute \div 2), WithTimeout(Background, 2 * Minute)}

----------------------------------------------------------------------------
(* Configurations *)

\* Config.URL: with and without the trailing slash, and one url.Parse rejects
\* (a first path segment with a colon: "missing protocol scheme")
URLs == { <<"http://h">>, <<"http://h", "/">>, <<":">> }

\* Config.Client: nil, or an *http.Client of the caller's with a Timeout of its own
NilClient == [nil |-> TRUE, Timeout |-> 0]
Clients == {NilClient, [nil |-> FALSE, Timeout |-> Minute \div 2]}

\* newConfig, lines 131-134: the caller's http.Client, or a new zero-valued one
\* (no Timeout) when the caller gave none
HTTPClient(client) ==
  IF client.nil THEN [own |-> TRUE, Timeout |-> 0] ELSE [own |-> FALSE, Timeout |-> client.Timeout]

Configs ==
  [URL : URLs, User : {<<"admin">>}, Pass : {<<"pw">>},
   HTTPUser : {<<>>, <<"u">>}, HTTPPass : {<<>>, <<"p">>}, Client : Clients]

\* url.Parse, as http.NewRequestWithContext calls it
ParseFails(uri) == uri # <<>> /\ uri[1] = ":"

\* the API paths
LoginPath == <<"api/v2/auth/login">>
InfoPath == <<"api/v2/torrents/info">>
CategoriesPath == <<"api/v2/torrents/categories">>
SetCategoryPath == <<"api/v2/torrents/setCategory">>

----------------------------------------------------------------------------
(* The server's answers *)

\* the statuses a server answers with: http.StatusOK, and 403 Forbidden as the
\* daemon answers a request that carries no valid session
Statuses == {StatusOK, 403}
StatusForbidden == CHOOSE st \in Statuses : st # StatusOK

\* client.Do returned an error (connection refused, timeout, cancellation)
TransportError == [err |-> TRUE, status |-> 0, body |-> <<>>]

Response(status, body) == [err |-> FALSE, status |-> status, body |-> body]

BodyAlphabet == {"O", "k", "."}

RECURSIVE StringsUpTo(_)
StringsUpTo(n) ==
  IF n = 0 THEN {<<>>}
  ELSE LET S == StringsUpTo(n - 1)
       IN S \cup {Append(s, ch) : s \in {t \in S : Len(t) = n - 1}, ch \in BodyAlphabet}

\* what a server may answer to the login of New: an error, or any status and body
LoginAnswers ==
  {TransportError} \cup
  {Response(st, b) : st \in Statuses, b \in StringsUpTo(MaxBodyLen)}

\* what a server may answer to a re-login inside a read or write call
ReloginAnswers ==
  {TransportError, Response(StatusOK, <<"O", "k", ".">>),
   Response(StatusOK, <<"k", "O">>), Response(StatusForbidden, <<>>)}

\* what a server may answer to an API request: an error, a JSON array, a JSON
\* object, or a page that is no JSON
ApiAnswers ==
  {TransportError, Response(StatusOK, <<"[", "]">>), Response(StatusOK, <<"{", "}">>),
   Response(StatusForbidden, <<"Forbidden">>)}

\* the answers to the requests of one call, in the order the call sends them
Scripts == [api : [1..2 -> ApiAnswers], login : [1..2 -> ReloginAnswers]]
NewScripts == [api : {<<>>}, login : [1..1 -> LoginAnswers]]
NoScript == [api |-> <<>>, login |-> <<>>]

\* the n-th answer of a script; a server asked more often repeats its last answer
Answer(answers, n) == IF n <= Len(answers) THEN answers[n] ELSE answers[Len(answers)]

----------------------------------------------------------------------------
(* json.Decoder.Decode *)

\* the destinations the callers pass: &xfers, &cats, and SetTorrentCategoryContext's
\* "var into map[string]interface{}", a nil map passed by value
IntoXfers == "*[]*Xfer"
IntoCategories == "*map[string]*Category"
IntoNilMap == "map[string]interface{}(nil)"

\* Decode reads one JSON value off the body, then unmarshals it into the destination
Decode(body, into) ==
  IF body = <<>> THEN Wrap("io.EOF", NilErr)
  ELSE IF body \notin {<<"[", "]">>, <<"{", "}">>} THEN Wrap("json.SyntaxError", NilErr)
  ELSE IF into = IntoNilMap THEN Wrap("json.InvalidUnmarshalError", NilErr)
  ELSE IF into = IntoXfers /\ body # <<"[", "]">> THEN Wrap("json.UnmarshalTypeError", NilErr)
  ELSE IF into = IntoCategories /\ body # <<"{", "}">> THEN Wrap("json.UnmarshalTypeError", NilErr)
  ELSE NilErr

----------------------------------------------------------------------------
(* The state of one caller *)

\* the goroutines that call the client; the first one builds it
Callers == {1, 2}
Builder == 1

\* cookiejar.New: the id-th jar created, with no cookie in it; id 0 is the nil
\* Jar of an http.Client no client has been built on
NewJar(id) == [id |-> id, cookies |-> <<>>]
NoJar == NewJar(0)
\* the cookie a successful login response sets
SessionCookie == <<"SID">>

NoResult == [kind |-> "none", err |-> NilErr, data |-> <<>>]
\* the call returned (data, err)
Return(data, err) == [kind |-> "return", err |-> err, data |-> data]
\* the call did not return: a run-time panic unwound the caller's stack
Panic(what) == [kind |-> "panic", err |-> Wrap(what, NilErr), data |-> <<>>]

IdleCall ==
  [op |-> "none", args |-> <<>>, pc |-> "idle", ctx |-> Background,
   method |-> "", uri |-> <<>>, val |-> NilValues, into |-> "", loop |-> FALSE,
   from |-> "", status |-> 0, decodeErr |-> NilErr, cancelled |-> FALSE,
   script |-> NoScript, log |-> <<>>, result |-> NoResult]

\* the requests of a kind ("api", "login") a call has sent so far
Sent(call, kind) == SelectSeq(call.log, LAMBDA e : e.kind = kind)

SetHeader(header, key, value) ==
  [k \in (DOMAIN header) \cup {key} |-> IF k = key THEN value ELSE header[k]]

NoHeader == <<>>

Init ==
  /\ config \in Configs
  /\ qbit = [built |-> FALSE, auth |-> <<>>, client |-> HTTPClient(NilClient), jar |-> NoJar.id]
  /\ jar = NoJar
  /\ calls = [c \in Callers |-> IdleCall]

----------------------------------------------------------------------------
(* Construction: NewNoAuth, New, newConfig *)

\* a normalization that adds the slash without trimming one first
NormalizeURLAppend(url) == url \o <<"/">>

\* newConfig, line 121: the normalized URL
NormalizeURL(url) == TrimSuffix(url, <<"/">>) \o <<"/">>

\* a header made only when both proxy credentials are given
BasicAuthBoth(user, pass) ==
  IF user # <<>> /\ pass # <<>>
  THEN <<"B", "a", "s", "i", "c", " ">> \o EncodeToString(Bytes(user \o <<":">> \o pass))
  ELSE <<>>

\* newConfig, lines 123-129: the Basic-Auth header
BasicAuth(user, pass) ==
  LET auth == user \o <<":">> \o pass
  IN IF auth # <<":">>
     THEN <<"B", "a", "s", "i", "c", " ">> \o EncodeToString(Bytes(auth))
     ELSE <<>>

\* the context newConfig hands to the eager login
NewLoginContext(ctx) == WithTimeout(ctx, Minute)

newConfig(c, ctx, script, login) ==
  /\ calls[c].pc = "idle"
  /\ ~qbit.built
  /\ config' = [config EXCEPT !.URL = NormalizeURL(@)]
  /\ qbit' = [built |-> TRUE, auth |-> BasicAuth(config.HTTPUser, config.HTTPPass),
              client |-> HTTPClient(config.Client), jar |-> jar.id + 1]
  /\ jar' = NewJar(jar.id + 1)
  /\ calls' = [calls EXCEPT ![c] =
       IF ~login
       THEN [IdleCall EXCEPT !.op = "NewNoAuth", !.pc = "done", !.result = Return(<<"qbit">>, NilErr)]
       ELSE [IdleCall EXCEPT !.op = "New", !.pc = "login", !.from = "newConfig",
                             !.ctx = NewLoginContext(ctx), !.script = script]]

NewNoAuth(c) == newConfig(c, Background, NoScript, FALSE)

New(c) ==
  /\ calls[c].pc = "idle" /\ ~qbit.built
  /\ \E ctx \in CallerContexts, script \in NewScripts : newConfig(c, ctx, script, TRUE)

----------------------------------------------------------------------------
(* The read and write calls *)

\* a panic no goroutine recovers from ends the process, and every goroutine with it
Running == \A c \in Callers : calls[c].result.kind # "panic"

\* a caller that holds a client and has no call in progress
Ready(c) == calls[c].pc = "idle" /\ qbit.built /\ Running

\* a call that logs in before its first request
StartReqLoginFirst(c, op, args, ctx, script, method, path, values, into) ==
  /\ Ready(c)
  /\ calls' = [calls EXCEPT ![c] =
       [IdleCall EXCEPT !.op = op, !.args = args, !.pc = "login", !.from = "req", !.ctx = ctx,
                        !.script = script, !.method = method, !.uri = config.URL \o path,
                        !.val = values, !.into = into, !.loop = TRUE]]
  /\ UNCHANGED <<config, qbit, jar>>

\* getReq and postReq enter req with loop = true
StartReq(c, op, args, ctx, script, method, path, values, into) ==
  /\ Ready(c)
  /\ calls' = [calls EXCEPT ![c] =
       [IdleCall EXCEPT !.op = op, !.args = args, !.pc = "req", !.ctx = ctx, !.script = script,
                        !.method = method, !.uri = config.URL \o path,
                        !.val = values, !.into = into, !.loop = TRUE]]
  /\ UNCHANGED <<config, qbit, jar>>

getReq(c, op, ctx, script, path, into) ==
  StartReq(c, op, <<>>, ctx, script, "GET", path, NilValues, into)

postReq(c, op, args, ctx, script, path, values, into) ==
  StartReq(c, op, args, ctx, script, "POST", path, values, into)

GetXfersContext(c, ctx) ==
  Ready(c) /\ \E script \in Scripts : getReq(c, "GetXfers", ctx, script, InfoPath, IntoXfers)

GetXfers(c) == GetXfersContext(c, Background)

GetCategoriesContext(c, ctx) ==
  Ready(c) /\ \E script \in Scripts : getReq(c, "GetCategories", ctx, script, CategoriesPath, IntoCategories)

GetCategories(c) == GetCategoriesContext(c, Background)

\* the categories and hash lists a caller passes
Categories == {<<"movies">>}
HashLists == {<<>>, << <<"abc">>, <<"def">> >>}

SetTorrentCategoryContext(c, ctx, category, torrentHashes) ==
  Ready(c) /\ \E script \in Scripts :
    postReq(c, "SetTorrentCategory", <<category, torrentHashes>>, ctx, script, SetCategoryPath,
            ValuesSet(ValuesSet(EmptyValues, "category", category),
                      "hashes", Join(torrentHashes, <<"|">>)),
            IntoNilMap)

SetTorrentCategory(c, category, torrentHashes) ==
  SetTorrentCategoryContext(c, Background, category, torrentHashes)

----------------------------------------------------------------------------
(* The dispatcher: req *)

FormContentType == <<"application/x-www-form-urlencoded">>

\* an entry of a call's log: a request handed to client.Do and, once client.Do
\* has returned, its answer and the error the caller made of it
Exchange(kind, request) ==
  [kind |-> kind, req |-> request, answered |-> FALSE, resp |-> TransportError, err |-> NilErr]

Answered(call, resp, err) ==
  [call.log EXCEPT ![Len(call.log)] = [@ EXCEPT !.answered = TRUE, !.resp = resp, !.err = err]]

\* req, lines 252-263: the headers of an API request
ReqHeader(method, auth) ==
  LET h1 == IF method = "POST" THEN SetHeader(NoHeader, "Content-Type", FormContentType)
            ELSE NoHeader
      h2 == SetHeader(h1, "Accept", <<"application/json">>)
  IN IF auth # <<>> THEN SetHeader(h2, "Authorization", auth) ELSE h2

\* a dispatcher that puts the values in the URL of every request
ReqQueryAlways(method, val) == Encode(val)

\* req, lines 251-257: the query string; only a GET request gets one
ReqQuery(method, val) == IF method = "POST" THEN <<>> ELSE Encode(val)

\* req, lines 241-245: the body; only a POST request gets one
ReqBody(method, val) == IF method = "POST" THEN Encode(val) ELSE <<>>

\* a retry that may itself retry (the flag not cleared)
RetryLoopKept == TRUE

\* req, line 277: the loop argument of the retry
RetryLoop == FALSE

\* req, lines 240-265: build the request and hand it to client.Do
req(c) ==
  LET call == calls[c]
      post == call.method = "POST"
  IN /\ call.pc = "req" /\ Running
     /\ calls' = [calls EXCEPT ![c] =
          IF ParseFails(call.uri)
          THEN [call EXCEPT !.pc = "done",
                  !.result = Return(<<>>, Wrap("creating request", Wrap("url.Error", NilErr)))]
          ELSE IF ~post /\ ValuesSetPanics(call.val)
          THEN [call EXCEPT !.pc = "done",
                  !.result = Panic("assignment to entry in nil map")]
          ELSE LET val == IF post THEN call.val ELSE ValuesSet(call.val, "filter", <<"all">>)
                   request == [method |-> call.method, url |-> call.uri,
                               query |-> ReqQuery(call.method, val),
                               body |-> ReqBody(call.method, call.val),
                               header |-> ReqHeader(call.method, qbit.auth),
                               ctx |-> call.ctx, done |-> call.cancelled,
                               timeout |-> qbit.client.Timeout,
                               jar |-> jar.id, cookie |-> jar.cookies]
               IN [call EXCEPT !.pc = "do", !.val = val,
                               !.log = Append(@, Exchange("api", request))]]
     /\ UNCHANGED <<config, qbit, jar>>

\* a URL that url.Parse takes for a path: client.Do rejects it at once
\* ("unsupported protocol scheme")
NoScheme(uri) == uri # <<>> /\ uri[1] = "/"

\* what client.Do returned: the server's scripted answer, or an error at once
\* when the request's context is done
DoAnswer(call, answers, kind) ==
  IF call.cancelled \/ NoScheme(call.log[Len(call.log)].req.url)
  THEN TransportError
  ELSE Answer(answers, Len(Sent(call, kind)))

\* the error client.Do returned: a *url.Error around the transport's error, or
\* around the context's once the context is done
DoError(call) ==
  IF call.cancelled THEN Wrap("net", Wrap("context canceled", NilErr)) ELSE Wrap("net", NilErr)

\* a dispatcher that treats a failed send like a body that failed to decode
AfterDoLogsIn(call, resp, cause) ==
  IF Decode(resp.body, call.into) = NilErr /\ ~resp.err
  THEN [call EXCEPT !.pc = "done",
          !.log = Answered(call, resp, NilErr),
          !.result = Return(resp.body, NilErr)]
  ELSE [call EXCEPT !.pc = "login", !.from = "req",
          !.log = Answered(call, resp, cause),
          !.status = resp.status, !.decodeErr = cause]

\* req, lines 266-274: a failed send returns its error wrapped; a body that
\* decodes ends the call; a body that does not decode leads to login
AfterDo(call, resp, cause) ==
  LET derr == Decode(resp.body, call.into)
  IN IF resp.err
     THEN [call EXCEPT !.pc = "done",
             !.log = Answered(call, resp, cause),
             !.result = Return(<<>>, Wrap("request failed", cause))]
     ELSE IF derr = NilErr
     THEN [call EXCEPT !.pc = "done",
             !.log = Answered(call, resp, NilErr),
             !.result = Return(resp.body, NilErr)]
     ELSE [call EXCEPT !.pc = "login", !.from = "req",
             !.log = Answered(call, resp, derr),
             !.status = resp.status, !.decodeErr = derr]

\* req, lines 265-283: client.Do returns; decode the body, or go and log in
reqDo(c) ==
  LET call == calls[c]
      resp == DoAnswer(call, call.script.api, "api")
  IN /\ call.pc = "do" /\ Running
     /\ calls' = [calls EXCEPT ![c] = AfterDo(call, resp, DoError(call))]
     /\ UNCHANGED <<config, qbit, jar>>

\* a dispatcher that retries whether or not the login succeeded
AfterLoginIgnoresError(call, err) ==
  IF call.from = "newConfig"
  THEN [call EXCEPT !.pc = "done", !.result = Return(<<"qbit">>, err)]
  ELSE IF call.loop
  THEN [call EXCEPT !.pc = "req", !.loop = RetryLoop]
  ELSE [call EXCEPT !.pc = "done",
          !.result = Return(<<>>, [Wrap("status", call.decodeErr) EXCEPT !.status = call.status])]

\* a dispatcher whose retry sends the values it has left after the first send: none
AfterLoginRetryEmpty(call, err) ==
  IF call.from = "newConfig"
  THEN [call EXCEPT !.pc = "done", !.result = Return(<<"qbit">>, err)]
  ELSE IF err # NilErr
  THEN [call EXCEPT !.pc = "done", !.result = Return(<<>>, err)]
  ELSE IF call.loop
  THEN [call EXCEPT !.pc = "req", !.loop = RetryLoop, !.val = EmptyValues]
  ELSE [call EXCEPT !.pc = "done",
          !.result = Return(<<>>, [Wrap("status", call.decodeErr) EXCEPT !.status = call.status])]

\* where login's caller goes on: newConfig returns (qbit, err); req (lines 272-280)
\* returns the login's error, retries once, or returns the decode error
AfterLogin(call, err) ==
  IF call.from = "newConfig"
  THEN [call EXCEPT !.pc = "done", !.result = Return(<<"qbit">>, err)]
  ELSE IF err # NilErr
  THEN [call EXCEPT !.pc = "done", !.result = Return(<<>>, err)]
  ELSE IF call.loop
  THEN [call EXCEPT !.pc = "req", !.loop = RetryLoop]
  ELSE [call EXCEPT !.pc = "done",
          !.result = Return(<<>>, [Wrap("status", call.decodeErr) EXCEPT !.status = call.status])]

----------------------------------------------------------------------------
(* The authenticator: login *)

OkMarker == <<"O", "k", ".">>

\* login, line 166: the headers of a login request (q.auth is not consulted)
LoginHeader(auth) == SetHeader(NoHeader, "Content-Type", FormContentType)

\* a check that rejects only when both the status and the body are wrong
LoginRejectedBoth(resp) == resp.status # StatusOK /\ ~Contains(resp.body, OkMarker)

\* login, line 176: the response is no successful login
LoginRejected(resp) == resp.status # StatusOK \/ ~Contains(resp.body, OkMarker)

\* login, line 170: client.Do failed
LoginTransportError(cause) == Wrap("login failed", cause)

\* the same message without the %w verb: ErrLoginFailed printed, not wrapped
LoginFailedErrorUnwrapped(resp, url) ==
  [chain |-> <<"authentication failed: status: url: body">>,
   status |-> resp.status, detail |-> <<url, resp.body>>]

\* login, line 177
LoginFailedError(resp, url) ==
  [chain |-> <<"authentication failed: status: url: body">> \o ErrLoginFailed.chain,
   status |-> resp.status, detail |-> <<url, resp.body>>]

\* login, lines 155-168: build the login request and hand it to client.Do
login(c) ==
  LET call == calls[c]
      params == ValuesSet(ValuesSet(EmptyValues, "username", config.User), "password", config.Pass)
      url == config.URL \o LoginPath
      request == [method |-> "POST", url |-> url, query |-> <<>>, body |-> Encode(params),
                  header |-> LoginHeader(qbit.auth), ctx |-> call.ctx, done |-> call.cancelled,
                  timeout |-> qbit.client.Timeout, jar |-> jar.id, cookie |-> jar.cookies]
  IN /\ call.pc = "login" /\ Running
     /\ calls' = [calls EXCEPT ![c] =
          IF ParseFails(url)
          THEN AfterLogin(call, Wrap("creating login request", Wrap("url.Error", NilErr)))
          ELSE [call EXCEPT !.pc = "loginDo", !.log = Append(@, Exchange("login", request))]]
     /\ UNCHANGED <<config, qbit, jar>>

\* login, lines 168-180: client.Do returns; status and body decide. The server
\* sets the session cookie with the response of a login it accepts, and the jar
\* of the client keeps it
loginDo(c) ==
  LET call == calls[c]
      resp == DoAnswer(call, call.script.login, "login")
      url == call.log[Len(call.log)].req.url
      err == IF resp.err THEN LoginTransportError(DoError(call))
             ELSE IF LoginRejected(resp) THEN LoginFailedError(resp, url)
             ELSE NilErr
  IN /\ call.pc = "loginDo" /\ Running
     /\ calls' = [calls EXCEPT ![c] =
          AfterLogin([call EXCEPT !.log = Answered(call, resp, err)], err)]
     /\ jar' = IF err = NilErr THEN [jar EXCEPT !.cookies = SessionCookie] ELSE jar
     /\ UNCHANGED <<config, qbit>>

\* the caller takes what the call returned (a panic leaves nothing to take)
Returned(c) ==
  /\ calls[c].pc = "done" /\ Running
  /\ calls[c].result.kind = "return"
  /\ calls' = [calls EXCEPT ![c] = IdleCall]
  /\ UNCHANGED <<config, qbit, jar>>

----------------------------------------------------------------------------

Next ==
  \E c \in {Builder} :
    \/ NewNoAuth(c)
    \/ New(c)
    \/ GetXfers(c)
    \/ \E ctx \in CallerContexts : GetXfersContext(c, ctx)
    \/ GetCategories(c)
    \/ \E ctx \in CallerContexts : GetCategoriesContext(c, ctx)
    \/ \E cat \in Categories, hashes \in HashLists : SetTorrentCategory(c, cat, hashes)
    \/ \E ctx \in CallerContexts, cat \in Categories, hashes \in HashLists :
         SetTorrentCategoryContext(c, ctx, cat, hashes)
    \/ req(c)
    \/ reqDo(c)
    \/ login(c)
    \/ loginDo(c)
    \/ Returned(c)

Spec == Init /\ [][Next]_vars

----------------------------------------------------------------------------
(* Two goroutines on one client *)

\* one configuration, and servers that answer every request and accept every login
ConcConfigs ==
  {cfg \in Configs : cfg.URL = <<"http://h">> /\ cfg.HTTPUser = <<>> /\ cfg.HTTPPass = <<>>
                      /\ cfg.Client = NilClient}

ConcScripts ==
  {s \in Scripts : /\ \A n \in 1..2 : ~s.api[n].err
                   /\ \A n \in 1..2 : s.login[n] = Response(StatusOK, <<"O", "k", ".">>)}

InitConc == Init /\ config \in ConcConfigs

ConcGetXfers(c) ==
  Ready(c) /\ \E script \in ConcScripts :
    getReq(c, "GetXfers", Background, script, InfoPath, IntoXfers)

ConcSetTorrentCategory(c) ==
  Ready(c) /\ \E script \in ConcScripts :
    postReq(c, "SetTorrentCategory", << <<"movies">>, <<>> >>, Background, script, SetCategoryPath,
            ValuesSet(ValuesSet(EmptyValues, "category", <<"movies">>), "hashes", <<>>),
            IntoNilMap)

NextConc ==
  \/ NewNoAuth(Builder)
  \/ \E c \in Callers :
       \/ ConcGetXfers(c)
       \/ ConcSetTorrentCategory(c)
       \/ req(c)
       \/ reqDo(c)
       \/ login(c)
       \/ loginDo(c)
       \/ Returned(c)

SpecConc == InitConc /\ [][NextConc]_vars

----------------------------------------------------------------------------
(* One goroutine, contexts that end, and further clients on the same Config *)

\* how many clients are built on one caller-supplied http.Client
MaxClients == 3

EnvConfigs ==
  {cfg \in Configs : cfg.URL = <<"http://h">> /\ cfg.HTTPUser = <<>> /\ cfg.HTTPPass = <<>>}

\* servers that answer every request and accept the re-login of a retry
EnvScripts ==
  {s \in Scripts : /\ \A n \in 1..2 : ~s.api[n].err
                   /\ ~s.login[1].err
                   /\ s.login[2] = Response(StatusOK, <<"O", "k", ".">>)}

\* the contexts of the caller that can end: by their deadline or by cancel()
EnvContexts == {ctx \in CallerContexts : ctx.hasDeadline}

InitEnv == Init /\ config \in EnvConfigs

EnvGetXfersContext(c) ==
  Ready(c) /\ \E ctx \in EnvContexts, script \in EnvScripts :
    getReq(c, "GetXfers", ctx, script, InfoPath, IntoXfers)

EnvSetTorrentCategoryContext(c) ==
  Ready(c) /\ \E ctx \in EnvContexts, script \in EnvScripts :
    postReq(c, "SetTorrentCategory", << <<"movies">>, <<>> >>, ctx, script, SetCategoryPath,
            ValuesSet(ValuesSet(EmptyValues, "category", <<"movies">>), "hashes", <<>>),
            IntoNilMap)

\* the context of a call in progress ends: ctx.Done() is closed, and from now on
\* client.Do returns the context's error
ctxDone(c) ==
  /\ calls[c].pc \in {"req", "do", "login", "loginDo"} /\ Running
  /\ calls[c].ctx.hasDeadline
  /\ ~calls[c].cancelled
  /\ calls' = [calls EXCEPT ![c].cancelled = TRUE]
  /\ UNCHANGED <<config, qbit, jar>>

\* NewNoAuth once more on the same Config: newConfig normalizes the URL again,
\* makes a new jar and assigns it to Config.Client.Jar; a nil Config.Client gives
\* the new client an http.Client of its own, which the first client never sees
NewNoAuthAgain(c) ==
  /\ Ready(c)
  /\ jar.id < MaxClients
  /\ config' = [config EXCEPT !.URL = NormalizeURL(@)]
  /\ jar' = IF qbit.client.own THEN jar ELSE NewJar(jar.id + 1)
  /\ UNCHANGED <<qbit, calls>>

NextEnv ==
  \E c \in {Builder} :
    \/ NewNoAuth(c)
    \/ New(c)
    \/ NewNoAuthAgain(c)
    \/ EnvGetXfersContext(c)
    \/ EnvSetTorrentCategoryContext(c)
    \/ ctxDone(c)
    \/ req(c)
    \/ reqDo(c)
    \/ login(c)
    \/ loginDo(c)
    \/ Returned(c)

SpecEnv == InitEnv /\ [][NextEnv]_vars

----------------------------------------------------------------------------
(* The category-set call on many categories and hash lists *)

\* how many hashes a caller passes at most
MaxHashes == 2

\* category names: plain, with a character the form encoding escapes, empty
FormCategories == {<<"movies">>, <<"tv", "&", "hd">>, <<"a", " ", "b", "=", "c">>, <<>>}

FormHashes == {<<"abc">>, <<"def">>}

RECURSIVE ListsUpTo(_, _)
ListsUpTo(S, n) ==
  IF n = 0 THEN {<<>>}
  ELSE LET L == ListsUpTo(S, n - 1)
       IN L \cup {Append(l, x) : l \in {m \in L : Len(m) = n - 1}, x \in S}

FormHashLists == ListsUpTo(FormHashes, MaxHashes)

InitForm == Init /\ config \in ConcConfigs

NextForm ==
  \E c \in {Builder} :
    \/ NewNoAuth(c)
    \/ \E cat \in FormCategories, hashes \in FormHashLists : SetTorrentCategory(c, cat, hashes)
    \/ req(c)
    \/ reqDo(c)
    \/ login(c)
    \/ loginDo(c)
    \/ Returned(c)

SpecForm == InitForm /\ [][NextForm]_vars

----------------------------------------------------------------------------
(* Construction, once and again, on many base URLs *)

\* how many slashes a configured URL ends in at most
MaxSlashes == 3

RECURSIVE Slashes(_)
Slashes(n) == IF n = 0 THEN <<>> ELSE <<"/">> \o Slashes(n - 1)

\* the empty URL, and a base followed by no, one or several slashes
URLInputs == {<<>>} \cup {<<"http://h">> \o Slashes(n) : n \in 0..MaxSlashes}

InitURL ==
  /\ config \in [URL : URLInputs, User : {<<"admin">>}, Pass : {<<"pw">>},
                  HTTPUser : {<<>>}, HTTPPass : {<<>>}, Client : Clients]
  /\ qbit = [built |-> FALSE, auth |-> <<>>, client |-> HTTPClient(NilClient), jar |-> NoJar.id]
  /\ jar = NoJar
  /\ calls = [c \in Callers |-> IdleCall]

NextURL ==
  \E c \in {Builder} :
    \/ NewNoAuth(c)
    \/ NewNoAuthAgain(c)
    \/ EnvGetXfersContext(c)
    \/ EnvSetTorrentCategoryContext(c)
    \/ req(c)
    \/ reqDo(c)
    \/ login(c)
    \/ loginDo(c)
    \/ Returned(c)

SpecURL == InitURL /\ [][NextURL]_vars

----------------------------------------------------------------------------
(* A client built by New, used by another goroutine once New has returned *)

\* what the server answers to the eager login: nothing, a refusal, Ok.
LateNewScripts ==
  [api : {<<>>},
   login : [1..1 -> {TransportError, Response(StatusForbidden, <<>>),
                     Response(StatusOK, <<"O", "k", ".">>)}]]

InitLate == Init /\ config \in ConcConfigs

LateNew(c) ==
  /\ calls[c].pc = "idle" /\ ~qbit.built
  /\ \E script \in LateNewScripts : newConfig(c, Background, script, TRUE)

\* the builder keeps what New returned; the other goroutine gets the client then
LateGetXfers(c) == calls[Builder].pc = "done" /\ ConcGetXfers(c)

LateSetTorrentCategory(c) == calls[Builder].pc = "done" /\ ConcSetTorrentCategory(c)

NextLate ==
  \/ LateNew(Builder)
  \/ \E c \in Callers \ {Builder} :
       \/ LateGetXfers(c)
       \/ LateSetTorrentCategory(c)
       \/ req(c)
       \/ reqDo(c)
  \/ \E c \in Callers :
       \/ login(c)
       \/ loginDo(c)

SpecLate == InitLate /\ [][NextLate]_vars

----------------------------------------------------------------------------
(* What the claims speak of *)

IsRead(call) == call.op \in {"GetXfers", "GetCategories"}
IsWrite(call) == call.op = "SetTorrentCategory"

ApiLog(call) == Sent(call, "api")
LoginLog(call) == Sent(call, "login")

\* the server's answer is a response whose body decodes into the destination
Decodable(resp, into) == ~resp.err /\ Decode(resp.body, into) = NilErr
\* the server's answer is a response whose body does not decode
Undecodable(resp, into) == ~resp.err /\ Decode(resp.body, into) # NilErr

\* the n-th API request of the call got a response, and its body failed to decode
DecodeFailed(call, n) ==
  /\ Len(ApiLog(call)) >= n
  /\ ApiLog(call)[n].answered
  /\ ~ApiLog(call)[n].resp.err
  /\ ApiLog(call)[n].err # NilErr

\* every login the call attempted was answered and succeeded
LoginsSucceeded(call) ==
  \A i \in 1..Len(LoginLog(call)) : LoginLog(call)[i].answered /\ LoginLog(call)[i].err = NilErr

\* the body holds the three characters O k . in a row
HasOkMarker(body) ==
  \E i \in 1..Len(body) :
    i + 2 <= Len(body) /\ body[i] = "O" /\ body[i + 1] = "k" /\ body[i + 2] = "."

----------------------------------------------------------------------------
(* The claims *)

\* C1: a read or write call whose first response body fails to decode and whose
\* login attempts succeed performs exactly one login and exactly one retried
\* request: once it has returned it has sent 1 login and 2 API requests.
C1_OneLoginOneRetry ==
  \A c \in Callers :
    LET call == calls[c]
    IN (/\ IsRead(call) \/ IsWrite(call)
        /\ call.pc = "done"
        /\ DecodeFailed(call, 1)
        /\ LoginsSucceeded(call))
       => (Len(LoginLog(call)) = 1 /\ Len(ApiLog(call)) = 2)

\* C2: no public operation panics: every call ends by returning a result or an
\* error value.
C2_NoPanic ==
  \A c \in Callers : calls[c].result.kind # "panic"

\* C3: when the first response and the retried response both fail to decode, the
\* call returns a decode error that wraps the retried response's status and the
\* decode error, never an authentication error and never success, whatever the
\* server answers to a login sent after the retry.
C3_RetryFailureIsDecodeError ==
  \A c \in Callers :
    LET call == calls[c]
    IN (/\ IsRead(call) \/ IsWrite(call)
        /\ call.pc = "done"
        /\ DecodeFailed(call, 1)
        /\ DecodeFailed(call, 2))
       => (/\ call.result.kind = "return"
           /\ call.result.err.status = ApiLog(call)[2].resp.status
           /\ call.result.err.chain = <<"status">> \o ApiLog(call)[2].err.chain
           /\ ~ErrorsIs(call.result.err, "ErrLoginFailed")
           /\ ~ErrorsIs(call.result.err, "login failed"))

\* C4: a read call to which the server answers the first request with a body
\* that decodes sends exactly one API request, invokes no login, and returns the
\* decoded data with no error.
C4_ReadDecodesAtOnce ==
  \A c \in Callers :
    LET call == calls[c]
        first == Answer(call.script.api, 1)
    IN (/\ IsRead(call)
        /\ call.pc = "done"
        /\ ~ParseFails(call.uri)
        /\ Decodable(first, call.into))
       => (/\ call.result = Return(first.body, NilErr)
           /\ Len(ApiLog(call)) = 1
           /\ Len(LoginLog(call)) = 0)

\* C5: against a server that gives no decodable body to the first GET, accepts
\* the login, and answers the second GET with a decodable body, a read call
\* returns success with the data of the second response.
C5_ReadRecoversAfterLogin ==
  \A c \in Callers :
    LET call == calls[c]
        first == Answer(call.script.api, 1)
        second == Answer(call.script.api, 2)
        relogin == Answer(call.script.login, 1)
    IN (/\ IsRead(call)
        /\ call.pc = "done"
        /\ ~ParseFails(call.uri)
        /\ Undecodable(first, call.into)
        /\ ~relogin.err /\ relogin.status = StatusOK /\ HasOkMarker(relogin.body)
        /\ Decodable(second, call.into))
       => call.result = Return(second.body, NilErr)

\* C6: one call sends at most two API requests: a call that has sent two is not
\* about to send a third, and once both are answered it returns or logs in one
\* last time and returns.
C6_AtMostTwoRequests ==
  \A c \in Callers :
    LET call == calls[c]
    IN /\ Len(ApiLog(call)) <= 2
       /\ Len(ApiLog(call)) = 2 => (call.pc # "req" /\ ~call.loop)

\* a call that returned after its second API request
C6_Witness ==
  \E c \in Callers :
    /\ calls[c].pc = "done"
    /\ calls[c].result.kind = "return"
    /\ Len(ApiLog(calls[c])) = 2
    /\ ApiLog(calls[c])[2].answered

\* C7: every login request, the eager one of New and every re-login of a read or
\* write call, runs under a deadline of its own of at most one minute.
C7_LoginUnderOneMinute ==
  \A c \in Callers :
    \A i \in 1..Len(LoginLog(calls[c])) :
      LET ctx == LoginLog(calls[c])[i].req.ctx
      IN ctx.hasDeadline /\ ctx.timeout <= Minute

\* C8: with proxy credentials configured (HTTPUser or HTTPPass non-empty) every
\* request sent, login and API request alike, carries the Authorization: Basic
\* header; with both empty no request carries an Authorization header.
C8_BasicAuthOnEveryRequest ==
  \A c \in Callers :
    \A i \in 1..Len(calls[c].log) :
      LET header == calls[c].log[i].req.header
      IN IF config.HTTPUser # <<>> \/ config.HTTPPass # <<>>
         THEN /\ "Authorization" \in DOMAIN header
              /\ SubSeq(header["Authorization"], 1, 6) = <<"B", "a", "s", "i", "c", " ">>
         ELSE "Authorization" \notin DOMAIN header

\* C9: login succeeds if and only if the response status is 200 and the body
\* contains the marker "Ok.": for every answered login, the error login returned
\* is nil exactly then, and New returns that error.
C9_LoginSuccessCriterion ==
  \A c \in Callers :
    LET call == calls[c]
    IN /\ \A i \in 1..Len(LoginLog(call)) :
            LET e == LoginLog(call)[i]
            IN (e.answered /\ ~e.resp.err)
               => ((e.err = NilErr) <=> (e.resp.status = 200 /\ HasOkMarker(e.resp.body)))
       /\ (call.op = "New" /\ call.pc = "done" /\ Len(LoginLog(call)) = 1
           /\ ~LoginLog(call)[1].resp.err)
          => ((call.result.err = NilErr)
              <=> (LoginLog(call)[1].resp.status = 200 /\ HasOkMarker(LoginLog(call)[1].resp.body)))

\* New has returned nil on a 200 response whose body holds the marker after
\* another character
C9_Witness ==
  \E c \in Callers :
    /\ calls[c].op = "New" /\ calls[c].pc = "done"
    /\ calls[c].result.err = NilErr
    /\ Len(LoginLog(calls[c])) = 1
    /\ LoginLog(calls[c])[1].resp.status = 200
    /\ LoginLog(calls[c])[1].resp.body = <<".", "O", "k", ".">>

\* C10 as claimed: every failed login, by transport failure, by non-OK status or
\* by a missing marker, returns an error that matches ErrLoginFailed.
C10_EveryFailureIsErrLoginFailed ==
  \A c \in Callers :
    \A i \in 1..Len(LoginLog(calls[c])) :
      LET e == LoginLog(calls[c])[i]
      IN (e.answered /\ e.err # NilErr) => ErrorsIs(e.err, "ErrLoginFailed")

\* C10 as amended: a login that fails by a non-OK status or a missing marker
\* returns an error that matches ErrLoginFailed and carries the status, the URL
\* and the body; a login whose request fails in transport returns an error that
\* wraps the transport error and does not match ErrLoginFailed.
C10_FailedLoginErrors ==
  \A c \in Callers :
    \A i \in 1..Len(LoginLog(calls[c])) :
      LET e == LoginLog(calls[c])[i]
      IN (e.answered /\ e.err # NilErr)
         => IF e.resp.err
            THEN ErrorsIs(e.err, "net") /\ ~ErrorsIs(e.err, "ErrLoginFailed")
            ELSE /\ ErrorsIs(e.err, "ErrLoginFailed")
                 /\ e.err.status = e.resp.status
                 /\ e.err.detail = <<e.req.url, e.resp.body>>

\* a write call has returned the error of a re-login that the server answered
\* with 200 and a body without the marker
C10_Witness ==
  \E c \in Callers :
    LET call == calls[c]
    IN /\ IsWrite(call) /\ call.pc = "done"
       /\ Len(LoginLog(call)) = 1
       /\ LoginLog(call)[1].resp = Response(StatusOK, <<"k", "O">>)
       /\ ErrorsIs(call.result.err, "ErrLoginFailed")

\* C11: a read or write request that fails at the transport level (client.Do
\* returns an error) is the last thing its call sends: no login and no retry
\* follow it, and the call returns an error that wraps the transport's error.
C11_TransportFailureEndsCall ==
  \A c \in Callers :
    LET call == calls[c]
    IN \A i \in 1..Len(call.log) :
         (call.log[i].kind = "api" /\ call.log[i].answered /\ call.log[i].resp.err)
         => (/\ i = Len(call.log)
             /\ call.pc = "done"
             /\ call.result.kind = "return"
             /\ call.result.err # NilErr
             /\ ErrorsIs(call.result.err, "net")
             /\ ~ErrorsIs(call.result.err, "login failed")
             /\ ~ErrorsIs(call.result.err, "ErrLoginFailed"))

\* a call whose retried request, sent after a decode failure and a login that
\* succeeded, failed at the transport level
C11_Witness ==
  \E c \in Callers :
    LET call == calls[c]
    IN /\ call.pc = "done"
       /\ Len(call.log) = 3
       /\ call.log[3].kind = "api"
       /\ call.log[3].answered
       /\ call.log[3].resp.err
       /\ ErrorsIs(call.result.err, "net")

\* C12: a read call whose request can be built sends a GET request, and every
\* GET request it sends, first attempt and retry alike, has the query string
\* filter=all and no body.
C12_ReadSendsFilterAll ==
  \A c \in Callers :
    LET call == calls[c]
    IN (IsRead(call) /\ call.pc = "done" /\ ~ParseFails(call.uri))
       => (/\ Len(ApiLog(call)) >= 1
           /\ \A i \in 1..Len(ApiLog(call)) :
                /\ ApiLog(call)[i].req.method = "GET"
                /\ ApiLog(call)[i].req.query = <<"filter", "=", "all">>
                /\ ApiLog(call)[i].req.body = <<>>)

\* the form-encoding of a category and a hash list, written out
FormOf(category, hashes) ==
  <<"category", "=">> \o category \o <<"&", "hashes", "=">>
  \o [i \in 1..Len(hashes) |-> IF hashes[i] = "|" THEN "%7C" ELSE hashes[i]]

\* C13: every write (POST) request a call sends, first attempt and retry alike,
\* carries the form-encoding of the call's values as its body, has the
\* Content-Type application/x-www-form-urlencoded, and has an empty query string.
C13_WriteRequestShape ==
  \A c \in Callers :
    LET call == calls[c]
    IN IsWrite(call) =>
         \A i \in 1..Len(ApiLog(call)) :
           LET r == ApiLog(call)[i].req
           IN /\ r.method = "POST"
              /\ r.body = FormOf(call.val.m["category"], call.val.m["hashes"])
              /\ "Content-Type" \in DOMAIN r.header
              /\ r.header["Content-Type"] = <<"application/x-www-form-urlencoded">>
              /\ r.query = <<>>

\* a write call that has sent its request and its retry, with two hashes
C13_Witness ==
  \E c \in Callers :
    LET call == calls[c]
    IN /\ IsWrite(call)
       /\ Len(ApiLog(call)) = 2
       /\ ApiLog(call)[1].req.body =
            <<"category", "=", "movies", "&", "hashes", "=", "abc", "%7C", "def">>
       /\ ApiLog(call)[2].req.body = ApiLog(call)[1].req.body

\* C14: when two goroutines call one client at the same time, the first response
\* of each call fails to decode, every login succeeds and the server answers
\* each retried request with well-formed JSON, both calls return success and the
\* jar the client was built with holds the session cookie.
C14_ConcurrentCallsSucceed ==
  (\A c \in Callers :
     LET call == calls[c]
     IN /\ IsRead(call) \/ IsWrite(call)
        /\ call.pc = "done"
        /\ DecodeFailed(call, 1)
        /\ Len(LoginLog(call)) >= 1
        /\ LoginsSucceeded(call)
        /\ call.script.api[2].body \in {<<"[", "]">>, <<"{", "}">>})
  => (/\ \A c \in Callers : calls[c].result.kind = "return" /\ calls[c].result.err = NilErr
      /\ jar.id = qbit.jar
      /\ jar.cookies = SessionCookie)

\* C15: every request a call hands to client.Do runs under a bound on the wait:
\* a deadline of its context or a Timeout of the http.Client, and the one-minute
\* default when the caller supplied neither.
C15_EveryRequestBounded ==
  \A c \in Callers :
    \A i \in 1..Len(calls[c].log) :
      LET r == calls[c].log[i].req
      IN r.ctx.hasDeadline \/ r.timeout > 0

\* C16: a Context-variant call whose context ended while the call was in
\* progress returns an error that wraps the context's error, and no request it
\* handed to client.Do after the context ended got an answer from the server.
C16_CancelledCallReturnsCause ==
  \A c \in Callers :
    LET call == calls[c]
    IN (/\ IsRead(call) \/ IsWrite(call)
        /\ call.pc = "done"
        /\ call.cancelled)
       => (/\ call.result.kind = "return"
           /\ ErrorsIs(call.result.err, "context canceled")
           /\ \A i \in 1..Len(call.log) :
                call.log[i].req.done => (call.log[i].answered /\ call.log[i].resp.err))

\* C20: the cookie jar made at the client's construction is the jar of the
\* client's http.Client in every later state, and every request of the client
\* is sent with it, whatever further clients are built from the same Config.
C20_JarOfConstructionStays ==
  /\ qbit.built => jar.id = qbit.jar
  /\ \A c \in Callers :
       \A i \in 1..Len(calls[c].log) : calls[c].log[i].req.jar = qbit.jar

\* the relative path of each operation, written out
PathOf(kind, op) ==
  IF kind = "login" THEN "api/v2/auth/login"
  ELSE IF op = "GetXfers" THEN "api/v2/torrents/info"
  ELSE IF op = "GetCategories" THEN "api/v2/torrents/categories"
  ELSE "api/v2/torrents/setCategory"

\* C17: construction turns the base URL http://h and the base URL http://h/
\* into the same normalized base http://h/, and the URL of every request, login
\* and API alike, is that base followed directly by the relative path.
C17_SameRequestURLs ==
  /\ [][(~qbit.built /\ qbit'.built /\ config.URL \in {<<"http://h">>, <<"http://h", "/">>})
          => config'.URL = <<"http://h", "/">>]_vars
  /\ [](\A c \in Callers :
          \A i \in 1..Len(calls[c].log) :
            calls[c].log[i].req.url =
              <<"http://h", "/", PathOf(calls[c].log[i].kind, calls[c].op)>>)

\* a call that has sent an API request and a login request
C17_Witness ==
  \E c \in Callers :
    LET call == calls[c]
    IN /\ Len(call.log) >= 2
       /\ call.log[1].req.url = <<"http://h", "/", "api/v2/torrents/setCategory">>
       /\ call.log[2].req.url = <<"http://h", "/", "api/v2/auth/login">>

\* "Basic " and the base64 of user:pass for the proxy credentials of the model,
\* written out: u: is dTo=, :p is OnA=, u:p is dTpw
HeaderOf(user, pass) ==
  IF user = <<>> /\ pass = <<>> THEN <<>>
  ELSE <<"B", "a", "s", "i", "c", " ">> \o
       (IF pass = <<>> THEN <<"d", "T", "o", "=">>
        ELSE IF user = <<>> THEN <<"O", "n", "A", "=">>
        ELSE <<"d", "T", "p", "w">>)

\* C18: once the client is built no step of any operation changes the
\* configuration or the Basic-Auth header, and the header is "" when both proxy
\* credentials are empty and "Basic " + base64(user:pass) otherwise.
C18_ConfigAndHeaderFixed ==
  /\ [][qbit.built => (config' = config /\ qbit'.auth = qbit.auth)]_vars
  /\ [](qbit.built => qbit.auth = HeaderOf(config.HTTPUser, config.HTTPPass))

\* a write call that logged in and retried on a client with a proxy user and no
\* proxy password
C18_Witness ==
  \E c \in Callers :
    /\ qbit.built
    /\ config.HTTPUser = <<"u">> /\ config.HTTPPass = <<>>
    /\ qbit.auth = <<"B", "a", "s", "i", "c", " ", "d", "T", "o", "=">>
    /\ IsWrite(calls[c])
    /\ calls[c].pc = "done"
    /\ Len(ApiLog(calls[c])) = 2

\* every login request of a read or write call directly follows an API request
\* of the call whose response failed to decode
LoginsFollowDecodeFailures(call) ==
  \A i \in 1..Len(call.log) :
    call.log[i].kind = "login"
    => (/\ i > 1
        /\ call.log[i - 1].kind = "api"
        /\ call.log[i - 1].answered
        /\ ~call.log[i - 1].resp.err
        /\ call.log[i - 1].err # NilErr)

\* C19, as stated: NewNoAuth sends no request, New has sent exactly one login
\* request (and nothing else) when it returns, and a read or write call sends a
\* login only after a response of its own failed to decode.
C19_ConstructionRequests ==
  \A c \in Callers :
    LET call == calls[c]
    IN /\ call.op = "NewNoAuth" => call.log = <<>>
       /\ (call.op = "New" /\ call.pc = "done")
          => (Len(LoginLog(call)) = 1 /\ Len(ApiLog(call)) = 0)
       /\ (IsRead(call) \/ IsWrite(call)) => LoginsFollowDecodeFailures(call)

\* C19, amended: NewNoAuth sends no request; New has sent exactly one login
\* request when it returns if the login URL parses, and none if it does not; a
\* read or write call sends a login only after a response of its own failed to
\* decode.
C19_ConstructionRequestsIfURLParses ==
  \A c \in Callers :
    LET call == calls[c]
    IN /\ call.op = "NewNoAuth" => call.log = <<>>
       /\ (call.op = "New" /\ call.pc = "done")
          => (/\ Len(ApiLog(call)) = 0
              /\ Len(LoginLog(call)) = (IF config.URL[1] = ":" THEN 0 ELSE 1)
              /\ config.URL[1] = ":" => call.result.err # NilErr)
       /\ (IsRead(call) \/ IsWrite(call)) => LoginsFollowDecodeFailures(call)

\* New has returned after one login request, on a URL that parses
C19_Witness ==
  \E c \in Callers :
    /\ calls[c].op = "New"
    /\ calls[c].pc = "done"
    /\ config.URL = <<"http://h", "/">>
    /\ Len(calls[c].log) = 1
    /\ calls[c].log[1].kind = "login"
    /\ calls[c].log[1].answered

\* C21: when the first response of a read or write call fails to decode and the
\* login that follows fails, the call sends no retry and no second login, and it
\* returns the login's error, which carries nothing of the decode error.
C21_FailedReloginEndsCall ==
  \A c \in Callers :
    LET call == calls[c]
    IN (/\ IsRead(call) \/ IsWrite(call)
        /\ DecodeFailed(call, 1)
        /\ Len(LoginLog(call)) >= 1
        /\ LoginLog(call)[1].answered
        /\ LoginLog(call)[1].err # NilErr)
       => (/\ call.pc = "done"
           /\ Len(ApiLog(call)) = 1
           /\ Len(LoginLog(call)) = 1
           /\ call.result = Return(<<>>, LoginLog(call)[1].err)
           /\ ErrorsIs(call.result.err, "ErrLoginFailed") \/ ErrorsIs(call.result.err, "login failed")
           /\ ~ErrorsIs(call.result.err, "status")
           /\ \A i \in 1..Len(ApiLog(call)[1].err.chain) :
                ~ErrorsIs(call.result.err, ApiLog(call)[1].err.chain[i]))

\* a write call whose first response did not decode and whose login the server
\* refused with 403
C21_Witness ==
  \E c \in Callers :
    LET call == calls[c]
    IN /\ IsWrite(call)
       /\ call.pc = "done"
       /\ DecodeFailed(call, 1)
       /\ Len(LoginLog(call)) = 1
       /\ LoginLog(call)[1].answered
       /\ LoginLog(call)[1].resp.status = StatusForbidden
       /\ ErrorsIs(call.result.err, "ErrLoginFailed")

\* C22: the retried request equals the first attempt in method, URL, query
\* string, body and headers (a POST body is sent again in full), and in its
\* context; the cookie the jar attaches is not compared.
C22_RetryIsSameRequest ==
  \A c \in Callers :
    LET call == calls[c]
    IN Len(ApiLog(call)) >= 2 =>
         LET first == ApiLog(call)[1].req
             retry == ApiLog(call)[2].req
         IN /\ retry.method = first.method
            /\ retry.url = first.url
            /\ retry.query = first.query
            /\ retry.body = first.body
            /\ retry.header = first.header
            /\ retry.ctx = first.ctx
            /\ first.method = "POST" => retry.body # <<>>

\* a retried write request with an Authorization header, sent with the session
\* cookie the first attempt did not have
C22_Witness ==
  \E c \in Callers :
    LET call == calls[c]
    IN /\ Len(ApiLog(call)) = 2
       /\ ApiLog(call)[1].req.method = "POST"
       /\ "Authorization" \in DOMAIN ApiLog(call)[2].req.header
       /\ ApiLog(call)[1].req.cookie = <<>>
       /\ ApiLog(call)[2].req.cookie = SessionCookie
       /\ ApiLog(call)[2].req.body =
            <<"category", "=", "movies", "&", "hashes", "=", "abc", "%7C", "def">>

\* C23: a SetTorrentCategory call to whose POST the server answers with a
\* well-formed JSON document sends that POST once, performs no login and returns
\* no error.
C23_WriteSucceedsAtOnce ==
  \A c \in Callers :
    LET call == calls[c]
    IN (/\ IsWrite(call)
        /\ call.pc = "done"
        /\ Len(ApiLog(call)) >= 1
        /\ ApiLog(call)[1].answered
        /\ ~ApiLog(call)[1].resp.err
        /\ ApiLog(call)[1].resp.status = StatusOK
        /\ ApiLog(call)[1].resp.body \in {<<"{", "}">>, <<"[", "]">>})
       => (/\ Len(ApiLog(call)) = 1
           /\ Len(LoginLog(call)) = 0
           /\ call.result.kind = "return"
           /\ call.result.err = NilErr)

\* the pieces of a string between the occurrences of a separator
RECURSIVE SplitOn(_, _)
SplitOn(s, sep) ==
  IF \A i \in 1..Len(s) : s[i] # sep THEN <<s>>
  ELSE LET i == CHOOSE k \in 1..Len(s) : s[k] = sep /\ \A j \in 1..(k - 1) : s[j] # sep
       IN <<SubSeq(s, 1, i - 1)>> \o SplitOn(SubSeq(s, i + 1, Len(s)), sep)

\* what a server reads out of an escaped form value
Unescape(s) ==
  [i \in 1..Len(s) |->
     IF s[i] = "%7C" THEN "|"
     ELSE IF s[i] = "%26" THEN "&"
     ELSE IF s[i] = "%3D" THEN "="
     ELSE IF s[i] = "+" THEN " "
     ELSE s[i]]

\* the fields of a form body, each a key and its unescaped value
FormFields(body) ==
  LET fs == SplitOn(body, "&")
  IN [i \in 1..Len(fs) |->
        IF Len(fs[i]) >= 2 /\ fs[i][2] = "="
        THEN [key |-> fs[i][1], value |-> Unescape(SubSeq(fs[i], 3, Len(fs[i])))]
        ELSE [key |-> "", value |-> fs[i]]]

\* C24: the body of every request of a category-set call, read as a form, has
\* exactly one category field, equal to the category name, and exactly one
\* hashes field, whose value split at "|" gives the caller's hashes in the
\* caller's order and is empty for an empty list; movies with abc and def gives
\* category=movies&hashes=abc%7Cdef.
C24_CategoryFormBody ==
  \A c \in Callers :
    LET call == calls[c]
    IN IsWrite(call) =>
         \A i \in 1..Len(ApiLog(call)) :
           LET body == ApiLog(call)[i].req.body
               fields == FormFields(body)
               category == call.args[1]
               torrentHashes == call.args[2]
               cats == {k \in 1..Len(fields) : fields[k].key = "category"}
               hs == {k \in 1..Len(fields) : fields[k].key = "hashes"}
           IN /\ Len(fields) = 2
              /\ Cardinality(cats) = 1
              /\ Cardinality(hs) = 1
              /\ \A k \in cats : fields[k].value = category
              /\ \A k \in hs :
                   IF torrentHashes = <<>> THEN fields[k].value = <<>>
                   ELSE LET pieces == SplitOn(fields[k].value, "|")
                        IN /\ Len(pieces) = Len(torrentHashes)
                           /\ \A n \in 1..Len(pieces) : pieces[n] = torrentHashes[n]
              /\ (category = <<"movies">> /\ torrentHashes = << <<"abc">>, <<"def">> >>)
                 => body = <<"category", "=", "movies", "&", "hashes", "=", "abc", "%7C", "def">>

\* a category-set request for the category tv&hd and the hashes def, abc
C24_Witness ==
  \E c \in Callers :
    LET call == calls[c]
    IN /\ IsWrite(call)
       /\ call.args = << <<"tv", "&", "hd">>, << <<"def">>, <<"abc">> >> >>
       /\ Len(ApiLog(call)) = 2
       /\ ApiLog(call)[2].req.body =
            <<"category", "=", "tv", "%26", "hd", "&", "hashes", "=", "def", "%7C", "abc">>

\* C25: the first construction turns the empty URL into "/", leaves a URL that
\* ends in a slash as it is and adds a slash to any other; every further
\* construction on the same Config leaves the stored URL as it is; and the
\* stored URL of a built client, the one every request starts with, is not
\* empty and ends in "/".
C25_NormalizationIdempotent ==
  /\ [][(~qbit.built /\ qbit'.built)
          => config'.URL = (IF config.URL = <<>> THEN <<"/">>
                            ELSE IF config.URL[Len(config.URL)] = "/" THEN config.URL
                            ELSE config.URL \o <<"/">>)]_vars
  /\ [][qbit.built => config'.URL = config.URL]_vars
  /\ [](qbit.built => (config.URL # <<>> /\ config.URL[Len(config.URL)] = "/"))
  /\ [](\A c \in Callers :
          \A i \in 1..Len(calls[c].log) :
            calls[c].log[i].req.url = config.URL \o <<PathOf(calls[c].log[i].kind, calls[c].op)>>)

\* a request sent by a client on a Config whose URL ended in two slashes, after
\* a second client was built on the same Config and http.Client
C25_Witness ==
  \E c \in Callers :
    /\ config.URL = <<"http://h", "/", "/">>
    /\ jar.id >= 2
    /\ Len(calls[c].log) >= 1
    /\ calls[c].log[1].req.url = <<"http://h", "/", "/", "api/v2/torrents/setCategory">>

\* C26: when New has returned an error of its eager login, it has returned a
\* client with it, the jar made at construction is attached and holds no cookie
\* until a later login succeeds, and a later read or write call whose first
\* response fails to decode, whose login succeeds and whose retry is answered
\* with well-formed JSON logs in once, retries once and returns success.
C26_ClientUsableAfterFailedNew ==
  LET new == calls[Builder]
  IN (new.op = "New" /\ new.pc = "done" /\ new.result.err # NilErr)
     => (/\ new.result.kind = "return"
         /\ new.result.data = <<"qbit">>
         /\ qbit.built
         /\ jar.id = qbit.jar
         /\ (\A c \in Callers : \A i \in 1..Len(LoginLog(calls[c])) :
               ~(LoginLog(calls[c])[i].answered /\ LoginLog(calls[c])[i].err = NilErr))
            => jar.cookies = <<>>
         /\ \A c \in Callers \ {Builder} :
              LET call == calls[c]
              IN (/\ IsRead(call) \/ IsWrite(call)
                  /\ call.pc = "done"
                  /\ DecodeFailed(call, 1)
                  /\ Len(LoginLog(call)) >= 1
                  /\ LoginsSucceeded(call)
                  /\ call.script.api[2].body \in {<<"[", "]">>, <<"{", "}">>})
                 => (/\ Len(ApiLog(call)) = 2
                     /\ Len(LoginLog(call)) = 1
                     /\ call.result.kind = "return"
                     /\ call.result.err = NilErr))

====
